---------------------------- MODULE Spec2Model ----------------------------
(***************************************************************************)
(* PassCard: generation and signing of Apple Wallet passes (.pkpass).      *)
(*                                                                         *)
(* The module models src/FlaskServer/pass_generator.py (PassGenerator) and *)
(* the create/update handlers of src/FlaskServer/app.py that call it.      *)
(*                                                                         *)
(* Python values.  Ticket text fields hold strings; a key that is missing  *)
(* from the ticket mapping is Absent and a JSON null is Null.  Strings the *)
(* code looks into character by character (colours, Base64 payloads) are   *)
(* sequences of one-character strings.  Top-level descriptor values carry  *)
(* a type tag (ty) so that values of different Python types can be told    *)
(* apart.  SHA-1, the PKCS#7 signature, JSON serialisation and the ZIP     *)
(* container are symbolic constructors: injective, and equal exactly on    *)
(* equal arguments.                                                        *)
(***************************************************************************)
EXTENDS Integers, Sequences, FiniteSets, TLC

VARIABLES
    hexIn,      \* hex_to_rgb: the argument
    hexOut,     \* hex_to_rgb: what the call did
    passConfig, \* PASS_CONFIG, read from the environment when the server starts
    inTicket,   \* generate_pass_json: the ticket mapping of the caller
    drawn,      \* generate_pass_json: the token secrets.token_hex gave this call
    jsonOut,    \* generate_pass_json: what the call did
    certDir,    \* the state of the certificates directory
    templateDir,\* the image files of the templates directory
    clock,      \* what datetime.now() reads
    certLoads,  \* how many times the certificate files were read and parsed
    args,       \* generate_pass: the arguments of the caller
    call,       \* each call of generate_pass: its generator, locals and result
    request,    \* each HTTP request: its route, its handler's position and locals
    pass_store, \* app.py: the in-memory registry, serial number -> entry
    generatedDir \* the .pkpass files of the generated directory

colorVars == <<hexIn, hexOut>>
descVars == <<inTicket, drawn, jsonOut>>
envVars == <<certDir, templateDir>>
genVars == <<clock, certLoads, args, call>>
svcVars == <<request, pass_store, generatedDir>>
vars == <<hexIn, hexOut, passConfig, inTicket, drawn, jsonOut, certDir, templateDir,
          clock, certLoads, args, call, request, pass_store, generatedDir>>

(***************************************************************************)
(* Bounds of the model.                                                    *)
(***************************************************************************)
MaxColorLen == 7
MaxFields == 2
MaxImages == 1
MaxCalls == 2
MaxClock == 1

(***************************************************************************)
(* Python values.                                                          *)
(***************************************************************************)
\* JSON null (None), and the mark of a value that was never given.
Null == "~null"
Absent == "~absent"

\* A colour field that holds a JSON null, a JSON number.
NullSeq == <<"~null">>
NumberSeq == <<"~number">>

Returned(v) == [st |-> "ok", v |-> v]
Raised(e) == [st |-> "raise", v |-> e]
NotCalled == [st |-> "none", v |-> ""]

\* str(s) of a character sequence.
RECURSIVE Join(_)
Join(s) == IF s = <<>> THEN "" ELSE Head(s) \o Join(Tail(s))

(***************************************************************************)
(* hex_to_rgb                                                              *)
(***************************************************************************)
HexDigits == {"0", "1", "2", "3", "4", "5", "6", "7", "8", "9",
              "a", "b", "c", "d", "e", "f", "A", "B", "C", "D", "E", "F"}

HexDigitVal(c) ==
    CASE c = "0" -> 0 [] c = "1" -> 1 [] c = "2" -> 2 [] c = "3" -> 3
      [] c = "4" -> 4 [] c = "5" -> 5 [] c = "6" -> 6 [] c = "7" -> 7
      [] c = "8" -> 8 [] c = "9" -> 9
      [] c \in {"a", "A"} -> 10 [] c \in {"b", "B"} -> 11
      [] c \in {"c", "C"} -> 12 [] c \in {"d", "D"} -> 13
      [] c \in {"e", "E"} -> 14 [] c \in {"f", "F"} -> 15

\* hex_color.lstrip('#'): every leading '#' goes, not only the first.
RECURSIVE LStripHash(_)
LStripHash(s) ==
    IF s # <<>> /\ Head(s) = "#" THEN LStripHash(Tail(s)) ELSE s

\* int(two_chars, 16): two digits, or a sign or a blank beside one digit;
\* anything else is a ValueError.
Int16(c1, c2) ==
    CASE c1 \in HexDigits /\ c2 \in HexDigits ->
            Returned(16 * HexDigitVal(c1) + HexDigitVal(c2))
      [] c1 \in {"+", " "} /\ c2 \in HexDigits -> Returned(HexDigitVal(c2))
      [] c1 = "-" /\ c2 \in HexDigits -> Returned(0 - HexDigitVal(c2))
      [] c1 \in HexDigits /\ c2 = " " -> Returned(HexDigitVal(c1))
      [] OTHER -> Raised("ValueError")

hex_to_rgb(hex_color) ==
    IF hex_color \in {NullSeq, NumberSeq}
    THEN Raised("AttributeError")   \* None and numbers have no lstrip
    ELSE LET h == LStripHash(hex_color)
         IN  IF Len(h) = 6
             THEN LET r == Int16(h[1], h[2])
                      g == Int16(h[3], h[4])
                      b == Int16(h[5], h[6])
                  IN  IF r.st = "raise" \/ g.st = "raise" \/ b.st = "raise"
                      THEN Raised("ValueError")
                      ELSE Returned("rgb(" \o ToString(r.v) \o ", " \o ToString(g.v)
                                    \o ", " \o ToString(b.v) \o ")")
             ELSE Returned("rgb(0, 0, 0)")

(***************************************************************************)
(* Dates.  datetime.fromisoformat(s.replace('Z', '+00:00')) on the date    *)
(* strings of the model; every other string, and None (which has no        *)
(* replace), raises inside the try block.                                  *)
(***************************************************************************)
DateUtc == "2025-12-31T00:00:00Z"
DateLocal == "2025-06-01T20:30:00"
DateBad == "soon"

Unparsable == [ok |-> FALSE]

fromisoformat(s) ==
    CASE s = DateUtc ->
            [ok |-> TRUE, year |-> 2025, month |-> 12, day |-> 31,
             hour |-> 0, minute |-> 0, second |-> 0, tz |-> "+00:00"]
      [] s = DateLocal ->
            [ok |-> TRUE, year |-> 2025, month |-> 6, day |-> 1,
             hour |-> 20, minute |-> 30, second |-> 0, tz |-> ""]
      [] OTHER -> Unparsable

MonthAbbr(m) ==
    CASE m = 1 -> "Jan" [] m = 2 -> "Feb" [] m = 3 -> "Mar" [] m = 4 -> "Apr"
      [] m = 5 -> "May" [] m = 6 -> "Jun" [] m = 7 -> "Jul" [] m = 8 -> "Aug"
      [] m = 9 -> "Sep" [] m = 10 -> "Oct" [] m = 11 -> "Nov" [] m = 12 -> "Dec"

Pad2(n) == IF n < 10 THEN "0" \o ToString(n) ELSE ToString(n)

\* datetime.now().isoformat() when the clock reads t.
NowIso(t) == "now+" \o ToString(t)

isoformat(dt) ==
    ToString(dt.year) \o "-" \o Pad2(dt.month) \o "-" \o Pad2(dt.day) \o "T"
    \o Pad2(dt.hour) \o ":" \o Pad2(dt.minute) \o ":" \o Pad2(dt.second) \o dt.tz

\* strftime('%b %d, %Y'); unparsable input comes back unchanged.
format_date(date_string) ==
    LET dt == fromisoformat(date_string)
    IN  IF dt.ok
        THEN MonthAbbr(dt.month) \o " " \o Pad2(dt.day) \o ", " \o ToString(dt.year)
        ELSE date_string

\* strftime('%H:%M')
format_time(time_string) ==
    LET dt == fromisoformat(time_string)
    IN  IF dt.ok THEN Pad2(dt.hour) \o ":" \o Pad2(dt.minute) ELSE time_string

\* strftime('%b %d, %H:%M')
format_datetime(date_string) ==
    LET dt == fromisoformat(date_string)
    IN  IF dt.ok
        THEN MonthAbbr(dt.month) \o " " \o Pad2(dt.day) \o ", "
             \o Pad2(dt.hour) \o ":" \o Pad2(dt.minute)
        ELSE date_string

\* The conversion that takes the current time whatever the input.
to_iso_date_always_now(date_string, now) == NowIso(now)

\* isoformat(); unparsable input becomes the current time.
to_iso_date(date_string, now) ==
    LET dt == fromisoformat(date_string)
    IN  IF dt.ok THEN isoformat(dt) ELSE NowIso(now)

(***************************************************************************)
(* Tickets: a mapping from the field names the caller sent to values.       *)
(***************************************************************************)
ColorFields == {"backgroundColor", "foregroundColor", "labelColor"}
DateFields == {"eventTime", "eventDate", "isoDate", "departureTime",
               "expirationDate", "memberSince"}
CommonFields == {"organizationName", "description", "eventName", "logoText",
                 "barcodeFormat", "barcodeMessage", "venueAddress"} \cup ColorFields
EventFields == {"eventTime", "eventName", "venueName", "eventDate", "seatSection",
                "seatRow", "seatNumber", "ticketHolder", "isoDate"}
BoardingFields == {"gate", "originCity", "originCode", "destinationCity",
                   "destinationCode", "passengerName", "departureTime",
                   "flightNumber", "seatNumber", "seatClass", "boardingGroup",
                   "confirmationCode"}
CouponFields == {"storeName", "discountAmount", "couponTitle", "promoCode",
                 "expirationDate", "termsAndConditions"}
StoreCardFields == {"pointsBalance", "cardholderName", "membershipLevel",
                    "memberSince"}
GenericFields == {"primaryValue", "primaryLabel", "secondaryValue",
                  "secondaryLabel"}
AllFields == {"ticketType"} \cup CommonFields \cup EventFields \cup BoardingFields
             \cup CouponFields \cup StoreCardFields \cup GenericFields

KnownTypes == {"eventTicket", "boardingPass", "coupon", "storeCard", "generic"}

\* d[k] = v
Put(d, k, v) == [x \in DOMAIN d \cup {k} |-> IF x = k THEN v ELSE d[x]]
PutIf(d, cond, k, v) == IF cond THEN Put(d, k, v) ELSE d

\* key in ticket
Has(ticket, f) == f \in DOMAIN ticket
\* ticket.get(f), and ticket[f] where the code has checked ticket.get(f)
Get(ticket, f) == IF f \in DOMAIN ticket THEN ticket[f] ELSE Null
\* ticket.get(f, default)
GetOr(ticket, f, default) == IF f \in DOMAIN ticket THEN ticket[f] ELSE default
\* bool(x) of a string or None
Truthy(x) == x \notin {Null, ""}
\* a or b
Or(a, b) == IF Truthy(a) THEN a ELSE b

\* ticket.get('ticketType', 'eventTicket')
TicketType(ticket) == GetOr(ticket, "ticketType", "eventTicket")

Field(key, label, value) == [key |-> key, label |-> label, value |-> value]

\* ', '.join(parts)
RECURSIVE JoinComma(_)
JoinComma(parts) ==
    IF Len(parts) = 0 THEN ""
    ELSE IF Len(parts) = 1 THEN parts[1]
    ELSE parts[1] \o ", " \o JoinComma(Tail(parts))

\* The list fs with field when cond holds, and as it is otherwise.
AppendIf(fs, cond, field) == IF cond THEN Append(fs, field) ELSE fs

EmptyContent ==
    [headerFields |-> <<>>, primaryFields |-> <<>>, secondaryFields |-> <<>>,
     auxiliaryFields |-> <<>>, backFields |-> <<>>]

\* The common back fields with the organization put in twice.
add_back_fields_twice(content, ticket, config) ==
    LET org == Field("organization", "Issued by",
                     GetOr(ticket, "organizationName", config.organizationName))
    IN  [content EXCEPT !.backFields =
            content.backFields \o <<org, org, Field("generated", "Generated by",
                                                    "PassCard App")>>]

add_back_fields(content, ticket, config) ==
    LET b0 == Append(content.backFields,
                     Field("organization", "Issued by",
                           GetOr(ticket, "organizationName", config.organizationName)))
        b1 == AppendIf(b0, Truthy(Get(ticket, "venueAddress")),
                       Field("address", "Address", Get(ticket, "venueAddress")))
        b2 == AppendIf(b1, Truthy(Get(ticket, "description")),
                       Field("description", "Description", Get(ticket, "description")))
        b3 == Append(b2, Field("generated", "Generated by", "PassCard App"))
    IN  [content EXCEPT !.backFields = b3]

generate_event_ticket_content(ticket, content, config) ==
    LET header == AppendIf(content.headerFields, Truthy(Get(ticket, "eventTime")),
                           Field("time", "TIME", format_time(Get(ticket, "eventTime"))))
        primary == Append(content.primaryFields,
                          Field("event", "EVENT", GetOr(ticket, "eventName", "Event")))
        s1 == AppendIf(content.secondaryFields, Truthy(Get(ticket, "venueName")),
                       Field("venue", "VENUE", Get(ticket, "venueName")))
        s2 == AppendIf(s1, Truthy(Get(ticket, "eventDate")),
                       Field("date", "DATE", format_date(Get(ticket, "eventDate"))))
        p1 == AppendIf(<<>>, Truthy(Get(ticket, "seatSection")),
                       "Sec " \o Get(ticket, "seatSection"))
        p2 == AppendIf(p1, Truthy(Get(ticket, "seatRow")), "Row " \o Get(ticket, "seatRow"))
        seat_parts == AppendIf(p2, Truthy(Get(ticket, "seatNumber")),
                               "Seat " \o Get(ticket, "seatNumber"))
        a1 == AppendIf(content.auxiliaryFields, seat_parts # <<>>,
                       Field("seat", "SEAT", JoinComma(seat_parts)))
        a2 == AppendIf(a1, Truthy(Get(ticket, "ticketHolder")),
                       Field("holder", "ATTENDEE", Get(ticket, "ticketHolder")))
    IN  add_back_fields([content EXCEPT !.headerFields = header,
                                        !.primaryFields = primary,
                                        !.secondaryFields = s2,
                                        !.auxiliaryFields = a2],
                        ticket, config)

\* The boarding pass with the destination put before the origin.
generate_boarding_pass_content_swapped(ticket, content, config) ==
    add_back_fields(
        [headerFields |-> content.headerFields,
         primaryFields |->
             <<Field("destination", GetOr(ticket, "destinationCity", "TO"),
                     GetOr(ticket, "destinationCode", "---")),
               Field("origin", GetOr(ticket, "originCity", "FROM"),
                     GetOr(ticket, "originCode", "---"))>>,
         secondaryFields |-> content.secondaryFields,
         auxiliaryFields |-> content.auxiliaryFields,
         backFields |-> content.backFields,
         transitType |-> "PKTransitTypeAir"],
        ticket, config)

generate_boarding_pass_content(ticket, content, config) ==
    LET header == AppendIf(content.headerFields, Truthy(Get(ticket, "gate")),
                           Field("gate", "GATE", Get(ticket, "gate")))
        p1 == Append(content.primaryFields,
                     Field("origin", GetOr(ticket, "originCity", "FROM"),
                           GetOr(ticket, "originCode", "---")))
        p2 == Append(p1,
                     Field("destination", GetOr(ticket, "destinationCity", "TO"),
                           GetOr(ticket, "destinationCode", "---")))
        s1 == AppendIf(content.secondaryFields, Truthy(Get(ticket, "passengerName")),
                       Field("passenger", "PASSENGER", Get(ticket, "passengerName")))
        s2 == AppendIf(s1, Truthy(Get(ticket, "departureTime")),
                       Field("departure", "DEPARTS",
                             format_datetime(Get(ticket, "departureTime"))))
        a1 == AppendIf(content.auxiliaryFields, Truthy(Get(ticket, "flightNumber")),
                       Field("flight", "FLIGHT", Get(ticket, "flightNumber")))
        a2 == AppendIf(a1, Truthy(Get(ticket, "seatNumber")),
                       Field("seat", "SEAT", Get(ticket, "seatNumber")))
        a3 == AppendIf(a2, Truthy(Get(ticket, "seatClass")),
                       Field("class", "CLASS", Get(ticket, "seatClass")))
        a4 == AppendIf(a3, Truthy(Get(ticket, "boardingGroup")),
                       Field("group", "GROUP", Get(ticket, "boardingGroup")))
        back == AppendIf(content.backFields, Truthy(Get(ticket, "confirmationCode")),
                         Field("confirmation", "Confirmation Code",
                               Get(ticket, "confirmationCode")))
        filled == [headerFields |-> header, primaryFields |-> p2,
                   secondaryFields |-> s2, auxiliaryFields |-> a4,
                   backFields |-> back, transitType |-> "PKTransitTypeAir"]
    IN  add_back_fields(filled, ticket, config)

generate_coupon_content(ticket, content, config) ==
    LET primary == Append(content.primaryFields,
                          Field("offer", GetOr(ticket, "storeName", "OFFER"),
                                Or(Get(ticket, "discountAmount"),
                                   Or(Get(ticket, "couponTitle"), "Special Offer"))))
        s1 == AppendIf(content.secondaryFields,
                       Truthy(Get(ticket, "couponTitle"))
                           /\ Truthy(Get(ticket, "discountAmount")),
                       Field("title", "PROMOTION", Get(ticket, "couponTitle")))
        s2 == AppendIf(s1, Truthy(Get(ticket, "promoCode")),
                       Field("code", "CODE", Get(ticket, "promoCode")))
        aux == AppendIf(content.auxiliaryFields, Truthy(Get(ticket, "expirationDate")),
                        Field("expires", "VALID UNTIL",
                              format_date(Get(ticket, "expirationDate"))))
        back == AppendIf(content.backFields, Truthy(Get(ticket, "termsAndConditions")),
                         Field("terms", "Terms & Conditions",
                               Get(ticket, "termsAndConditions")))
    IN  add_back_fields([content EXCEPT !.primaryFields = primary,
                                        !.secondaryFields = s2,
                                        !.auxiliaryFields = aux,
                                        !.backFields = back],
                        ticket, config)

generate_store_card_content(ticket, content, config) ==
    LET primary == IF Truthy(Get(ticket, "pointsBalance"))
                   THEN Append(content.primaryFields,
                               Field("balance", "POINTS", Get(ticket, "pointsBalance")))
                   ELSE Append(content.primaryFields,
                               Field("member", "MEMBER",
                                     GetOr(ticket, "cardholderName", "Member")))
        s1 == AppendIf(content.secondaryFields, Truthy(Get(ticket, "membershipLevel")),
                       Field("level", "LEVEL", Get(ticket, "membershipLevel")))
        s2 == AppendIf(s1,
                       Truthy(Get(ticket, "cardholderName"))
                           /\ Truthy(Get(ticket, "pointsBalance")),
                       Field("name", "NAME", Get(ticket, "cardholderName")))
        aux == AppendIf(content.auxiliaryFields, Truthy(Get(ticket, "memberSince")),
                        Field("since", "MEMBER SINCE",
                              format_date(Get(ticket, "memberSince"))))
    IN  add_back_fields([content EXCEPT !.primaryFields = primary,
                                        !.secondaryFields = s2,
                                        !.auxiliaryFields = aux],
                        ticket, config)

generate_generic_content(ticket, content, config) ==
    LET primary == AppendIf(content.primaryFields, Truthy(Get(ticket, "primaryValue")),
                            Field("primary", GetOr(ticket, "primaryLabel", ""),
                                  Get(ticket, "primaryValue")))
        secondary == AppendIf(content.secondaryFields,
                              Truthy(Get(ticket, "secondaryValue")),
                              Field("secondary", GetOr(ticket, "secondaryLabel", ""),
                                    Get(ticket, "secondaryValue")))
    IN  add_back_fields([content EXCEPT !.primaryFields = primary,
                                        !.secondaryFields = secondary],
                        ticket, config)

\* The dispatch with the generic layout as its fallback.
generate_pass_content_generic_fallback(ticket, ticket_type, config) ==
    CASE ticket_type = "eventTicket" ->
            generate_event_ticket_content(ticket, EmptyContent, config)
      [] ticket_type = "boardingPass" ->
            generate_boarding_pass_content(ticket, EmptyContent, config)
      [] ticket_type = "coupon" ->
            generate_coupon_content(ticket, EmptyContent, config)
      [] ticket_type = "storeCard" ->
            generate_store_card_content(ticket, EmptyContent, config)
      [] OTHER -> generate_generic_content(ticket, EmptyContent, config)

\* generators.get(ticket_type, self.generate_event_ticket_content)(ticket, content)
generate_pass_content(ticket, ticket_type, config) ==
    CASE ticket_type = "eventTicket" ->
            generate_event_ticket_content(ticket, EmptyContent, config)
      [] ticket_type = "boardingPass" ->
            generate_boarding_pass_content(ticket, EmptyContent, config)
      [] ticket_type = "coupon" ->
            generate_coupon_content(ticket, EmptyContent, config)
      [] ticket_type = "storeCard" ->
            generate_store_card_content(ticket, EmptyContent, config)
      [] ticket_type = "generic" ->
            generate_generic_content(ticket, EmptyContent, config)
      [] OTHER -> generate_event_ticket_content(ticket, EmptyContent, config)

(***************************************************************************)
(* The descriptor (pass.json): a mapping from top-level keys to tagged     *)
(* values.                                                                 *)
(***************************************************************************)
PyStr(s) == IF s = Null THEN [ty |-> "none", v |-> Null] ELSE [ty |-> "str", v |-> s]
PyInt(n) == [ty |-> "int", v |-> n]
PyList(l) == [ty |-> "list", v |-> l]
PyDict(d) == [ty |-> "dict", v |-> d]

\* The dict literal of generate_pass_json, given the three converted colours.
PassJsonLiteral(ticket, serial_number, config, bg, fg, lb) ==
    [formatVersion |-> PyInt(1),
     passTypeIdentifier |-> PyStr(config.passTypeIdentifier),
     teamIdentifier |-> PyStr(config.teamIdentifier),
     serialNumber |-> PyStr(serial_number),
     organizationName |->
         PyStr(GetOr(ticket, "organizationName", config.organizationName)),
     description |->
         PyStr(Or(Get(ticket, "description"), Or(Get(ticket, "eventName"), "Pass"))),
     backgroundColor |-> PyStr(bg),
     foregroundColor |-> PyStr(fg),
     labelColor |-> PyStr(lb),
     barcodes |->
         PyList(<<[format |-> GetOr(ticket, "barcodeFormat", "PKBarcodeFormatQR"),
                   message |-> GetOr(ticket, "barcodeMessage", serial_number),
                   messageEncoding |-> "iso-8859-1"]>>)]

\* ticket.get(colour_field, default) of a colour field
GetColor(ticket, f, default) == IF f \in DOMAIN ticket THEN ticket[f] ELSE default

DefaultBackground == <<"#", "1", "C", "1", "C", "1", "E">>
DefaultForeground == <<"#", "F", "F", "F", "F", "F", "F">>
DefaultLabel == <<"#", "8", "E", "8", "E", "9", "3">>

\* Lines 83-90: logoText, and the web-service URL with a token drawn for this call.
PassJsonLinks(pj, ticket, config, token) ==
    LET p1 == PutIf(pj, Truthy(Get(ticket, "logoText")), "logoText",
                    PyStr(Get(ticket, "logoText")))
        p2 == PutIf(p1, Truthy(config.webServiceURL), "webServiceURL",
                    PyStr(config.webServiceURL))
    IN  PutIf(p2, Truthy(config.webServiceURL), "authenticationToken", PyStr(token))

\* Lines 92-94: the content block goes under the ticket's own type tag.
PassJsonContent(pj, ticket, config) ==
    Put(pj, TicketType(ticket),
        PyDict(generate_pass_content(ticket, TicketType(ticket), config)))

\* Lines 96-104: relevantDate and expirationDate.
PassJsonDates(pj, ticket, now) ==
    LET ticket_type == TicketType(ticket)
        p1 == IF ticket_type = "eventTicket" /\ Truthy(Get(ticket, "eventDate"))
              THEN Put(pj, "relevantDate",
                       PyStr(Or(Get(ticket, "isoDate"),
                                to_iso_date(Get(ticket, "eventDate"), now))))
              ELSE IF ticket_type = "boardingPass" /\ Truthy(Get(ticket, "departureTime"))
              THEN Put(pj, "relevantDate",
                       PyStr(to_iso_date(Get(ticket, "departureTime"), now)))
              ELSE pj
    IN  PutIf(p1, ticket_type = "coupon" /\ Truthy(Get(ticket, "expirationDate")),
              "expirationDate", PyStr(to_iso_date(Get(ticket, "expirationDate"), now)))

\* The call returns the descriptor, or raises what hex_to_rgb raised.
generate_pass_json(ticket, serial_number, config, token, now) ==
    LET bg == hex_to_rgb(GetColor(ticket, "backgroundColor", DefaultBackground))
        fg == hex_to_rgb(GetColor(ticket, "foregroundColor", DefaultForeground))
        lb == hex_to_rgb(GetColor(ticket, "labelColor", DefaultLabel))
    IN  IF bg.st = "raise" THEN bg
        ELSE IF fg.st = "raise" THEN fg
        ELSE IF lb.st = "raise" THEN lb
        ELSE Returned(
                PassJsonDates(
                    PassJsonContent(
                        PassJsonLinks(
                            PassJsonLiteral(ticket, serial_number, config,
                                            bg.v, fg.v, lb.v),
                            ticket, config, token),
                        ticket, config),
                    ticket, now))

(***************************************************************************)
(* base64.b64decode(s): binascii.a2b_base64 without strict mode.  A        *)
(* character outside the alphabet is skipped, padding that completes a     *)
(* quad ends the decoding, and leftover characters of a quad are an error. *)
(***************************************************************************)
B64Chars ==
    <<"A", "B", "C", "D", "E", "F", "G", "H", "I", "J", "K", "L", "M", "N", "O", "P",
      "Q", "R", "S", "T", "U", "V", "W", "X", "Y", "Z", "a", "b", "c", "d", "e", "f",
      "g", "h", "i", "j", "k", "l", "m", "n", "o", "p", "q", "r", "s", "t", "u", "v",
      "w", "x", "y", "z", "0", "1", "2", "3", "4", "5", "6", "7", "8", "9", "+", "/">>

B64Alphabet == {B64Chars[i] : i \in DOMAIN B64Chars}

B64Val(c) == (CHOOSE i \in DOMAIN B64Chars : B64Chars[i] = c) - 1

RECURSIVE a2b_base64(_, _, _, _, _)
a2b_base64(s, quad_pos, leftchar, pads, out) ==
    IF s = <<>>
    THEN IF quad_pos # 0 THEN Raised("binascii.Error") ELSE Returned(out)
    ELSE LET c == Head(s)
         IN  IF c = "="
             THEN IF quad_pos >= 2 /\ quad_pos + pads + 1 >= 4
                  THEN Returned(out)
                  ELSE a2b_base64(Tail(s), quad_pos, leftchar,
                                  IF quad_pos >= 2 THEN pads + 1 ELSE pads, out)
             ELSE IF c \notin B64Alphabet
             THEN a2b_base64(Tail(s), quad_pos, leftchar, pads, out)
             ELSE LET v == B64Val(c)
                  IN  CASE quad_pos = 0 -> a2b_base64(Tail(s), 1, v, 0, out)
                        [] quad_pos = 1 ->
                             a2b_base64(Tail(s), 2, v % 16, 0,
                                        Append(out, leftchar * 4 + v \div 16))
                        [] quad_pos = 2 ->
                             a2b_base64(Tail(s), 3, v % 4, 0,
                                        Append(out, leftchar * 16 + v \div 4))
                        [] quad_pos = 3 ->
                             a2b_base64(Tail(s), 0, 0, 0,
                                        Append(out, leftchar * 64 + v))

\* A payload that is no string (a JSON number) is a TypeError.
b64decode(payload) ==
    IF payload = NumberSeq THEN Raised("TypeError")
    ELSE a2b_base64(payload, 0, 0, 0, <<>>)

(***************************************************************************)
(* The bundle file set: a dict in insertion order, a sequence of           *)
(* [name, content] pairs with one pair per name.                           *)
(***************************************************************************)
NamesOf(files) == {files[i].name : i \in DOMAIN files}

ContentOf(files, name) ==
    files[CHOOSE i \in DOMAIN files : files[i].name = name].content

\* files[name] = content
DictSet(files, name, content) ==
    IF name \in NamesOf(files)
    THEN [i \in DOMAIN files |->
             IF files[i].name = name THEN [name |-> name, content |-> content]
             ELSE files[i]]
    ELSE Append(files, [name |-> name, content |-> content])

\* json.dumps(obj, indent=indent).encode('utf-8'); indent 0 stands for no indent.
JsonBytes(obj, indent) == [json |-> obj, indent |-> indent]
\* The bytes of an image.
Raw(bytes) == [bytes |-> bytes]
\* hashlib.sha1(content).hexdigest()
Sha1Hex(content) == [sha1 |-> content]

\* generate_placeholder_image(): a 1x1 transparent PNG.
PlaceholderImage ==
    <<137, 80, 78, 71, 13, 10, 26, 10, 0, 0, 0, 13, 73, 72, 68, 82,
      0, 0, 0, 1, 0, 0, 0, 1, 8, 2, 0, 0, 0, 144, 119, 83,
      222, 0, 0, 0, 12, 73, 68, 65, 84, 8, 215, 99, 248, 0, 0, 0,
      1, 0, 1, 0, 5, 254, 212, 231, 0, 0, 0, 0, 73, 69, 78, 68,
      174, 66, 96, 130>>

\* images.get(role)
ImageGet(images, role) == IF role \in DOMAIN images THEN images[role] ELSE NullSeq
\* bool(payload): None and the empty string are false.
TruthyPayload(payload) == payload \notin {NullSeq, <<>>}

\* files[name] = files[name2x] = bytes
SetBoth(files, name, name2x, bytes) ==
    DictSet(DictSet(files, name, Raw(bytes)), name2x, Raw(bytes))

\* The decoded payload goes under both names, or the decoding error goes up.
DecodeInto(files, payload, name, name2x) ==
    LET decoded == b64decode(payload)
    IN  IF decoded.st = "raise" THEN decoded
        ELSE Returned(SetBoth(files, name, name2x, decoded.v))

\* The icon taken from the template directory before the caller's.
AddIcon_template_first(files, images, templates) ==
    IF "icon.png" \in DOMAIN templates
    THEN Returned(SetBoth(files, "icon.png", "icon@2x.png", templates["icon.png"]))
    ELSE IF TruthyPayload(ImageGet(images, "icon"))
    THEN DecodeInto(files, images["icon"], "icon.png", "icon@2x.png")
    ELSE Returned(SetBoth(files, "icon.png", "icon@2x.png", PlaceholderImage))

\* Lines 452-468: icon.png is required.
AddIcon(files, images, templates) ==
    IF TruthyPayload(ImageGet(images, "icon"))
    THEN DecodeInto(files, images["icon"], "icon.png", "icon@2x.png")
    ELSE IF "icon.png" \in DOMAIN templates
    THEN Returned(SetBoth(files, "icon.png", "icon@2x.png", templates["icon.png"]))
    ELSE Returned(SetBoth(files, "icon.png", "icon@2x.png", PlaceholderImage))

\* Lines 470-481: logo.png is optional.
AddLogo(files, images, templates) ==
    IF TruthyPayload(ImageGet(images, "logo"))
    THEN DecodeInto(files, images["logo"], "logo.png", "logo@2x.png")
    ELSE IF "logo.png" \in DOMAIN templates
    THEN Returned(SetBoth(files, "logo.png", "logo@2x.png", templates["logo.png"]))
    ELSE Returned(files)

\* Lines 483-499: the images that depend on the ticket type, and the thumbnail.
AddBackground(files, ticket, images) ==
    IF TicketType(ticket) = "eventTicket" /\ TruthyPayload(ImageGet(images, "background"))
    THEN DecodeInto(files, images["background"], "background.png", "background@2x.png")
    ELSE Returned(files)

\* The strip added whatever the ticket type.
AddStrip_any_type(files, ticket, images) ==
    IF TruthyPayload(ImageGet(images, "strip"))
    THEN DecodeInto(files, images["strip"], "strip.png", "strip@2x.png")
    ELSE Returned(files)

AddStrip(files, ticket, images) ==
    IF TicketType(ticket) \in {"coupon", "storeCard"}
           /\ TruthyPayload(ImageGet(images, "strip"))
    THEN DecodeInto(files, images["strip"], "strip.png", "strip@2x.png")
    ELSE Returned(files)

AddThumbnail(files, images) ==
    IF TruthyPayload(ImageGet(images, "thumbnail"))
    THEN DecodeInto(files, images["thumbnail"], "thumbnail.png", "thumbnail@2x.png")
    ELSE Returned(files)

\* Step 2 of generate_pass: the first failing decode ends it.
AddImages(files, ticket, images, templates) ==
    LET r1 == AddIcon(files, images, templates)
        r2 == IF r1.st = "raise" THEN r1 ELSE AddLogo(r1.v, images, templates)
        r3 == IF r2.st = "raise" THEN r2 ELSE AddBackground(r2.v, ticket, images)
        r4 == IF r3.st = "raise" THEN r3 ELSE AddStrip(r3.v, ticket, images)
    IN  IF r4.st = "raise" THEN r4 ELSE AddThumbnail(r4.v, images)

create_manifest_skip_first(files) ==
    [i \in 1..(Len(files) - 1) |->
        [name |-> files[i + 1].name, content |-> Sha1Hex(files[i + 1].content)]]

\* create_manifest: the SHA-1 of every file the dict holds, in its order.
create_manifest(files) ==
    [i \in DOMAIN files |->
        [name |-> files[i].name, content |-> Sha1Hex(files[i].content)]]

(***************************************************************************)
(* Certificates and the signature.                                         *)
(***************************************************************************)
\* The certificates directory: its three PEM files parse and sign ("valid"),
\* parse but cannot sign ("unsignable"), or do not load ("broken").
CertDirs == {"valid", "unsignable", "broken"}

\* The objects one load makes; load tells one load's objects from another's.
CertBundle(dir, load) ==
    [signer_cert |-> "signerCert.pem", signer_key |-> "signerKey.pem",
     wwdr_cert |-> "WWDR.pem", dir |-> dir, load |-> load]

\* load_certificates on a generator whose cache is cached (<<>> is None): the
\* bundle and whether the files were read, or the error.
load_certificates(cached, dir, loads) ==
    IF cached # <<>>
    THEN Returned([certs |-> cached[1], read |-> FALSE])
    ELSE IF dir = "broken"
    THEN Raised("Failed to load certificates")
    ELSE Returned([certs |-> CertBundle(dir, loads + 1), read |-> TRUE])

\* The signature made over other bytes than the manifest's.
pkcs7_sign_other_data(manifest_data, certs) ==
    IF certs.dir = "unsignable"
    THEN Raised("SigningError")
    ELSE Returned([pkcs7 |-> "DER", detached |-> TRUE, data |-> JsonBytes(<<>>, 0),
                   signer_cert |-> certs.signer_cert, signer_key |-> certs.signer_key,
                   hash |-> "SHA256", certificates |-> <<certs.wwdr_cert>>])

\* PKCS7SignatureBuilder().set_data(...).add_signer(...).add_certificate(...).sign(
\*     DER, [DetachedSignature])
pkcs7_sign(manifest_data, certs) ==
    IF certs.dir = "unsignable"
    THEN Raised("SigningError")
    ELSE Returned([pkcs7 |-> "DER", detached |-> TRUE, data |-> manifest_data,
                   signer_cert |-> certs.signer_cert, signer_key |-> certs.signer_key,
                   hash |-> "SHA256", certificates |-> <<certs.wwdr_cert>>])

\* The archive with the first file written a second time.
ZipArchive_first_twice(files) ==
    [zip |-> Append(files, files[1]), compression |-> "ZIP_DEFLATED"]

\* The archive zipfile writes: one member per file of the dict, in its order.
ZipArchive(files) == [zip |-> files, compression |-> "ZIP_DEFLATED"]

(***************************************************************************)
(* Calls of hex_to_rgb on the colour strings a ticket can carry.           *)
(***************************************************************************)
ColorAlphabet == {"#", "0", "f", "A", "G"}

RECURSIVE SeqsUpTo(_, _)
SeqsUpTo(S, n) ==
    IF n = 0 THEN {<<>>}
    ELSE LET shorter == SeqsUpTo(S, n - 1)
         IN  shorter \cup {<<c>> \o s : c \in S, s \in {t \in shorter : Len(t) = n - 1}}

ColorInputs == SeqsUpTo(ColorAlphabet, MaxColorLen) \cup {NullSeq, NumberSeq}

(***************************************************************************)
(* The configuration and the inputs of the model.                          *)
(***************************************************************************)
ServiceURL == "https://passcard.example"

Config(url) ==
    [passTypeIdentifier |-> "pass.com.needsomevibe.passcard",
     teamIdentifier |-> "XFL8CQ52JZ",
     webServiceURL |-> url,
     organizationName |-> "PassCard"]

\* WEB_SERVICE_URL unset, set to the empty string, set to a URL.
Configs == {Config(Null), Config(""), Config(ServiceURL)}

\* The hex strings of secrets.token_hex(16) the model draws from.
Tokens == {"00ff00ff00ff00ff00ff00ff00ff00ff", "a1a1a1a1a1a1a1a1a1a1a1a1a1a1a1a1"}

ColorSamples ==
    {<<"#", "F", "F", "0", "0", "8", "0">>, <<"0", "0", "f", "f", "1", "0">>,
     <<"#", "#", "0", "0", "0", "0", "F", "F">>, <<"#", "F", "F", "F">>,
     <<"G", "G", "G", "G", "G", "G">>, NullSeq, NumberSeq}

\* A value a caller may send for field f; the text of a text field names it.
Sample(f) == "<" \o f \o ">"

FieldValues(f) ==
    IF f \in ColorFields THEN ColorSamples
    ELSE IF f \in DateFields THEN {"", DateUtc, DateLocal, DateBad}
    ELSE IF f = "discountAmount" THEN {"", Null, Sample(f), Sample("couponTitle")}
    ELSE {"", Null, Sample(f)}

\* ticketType values: the five known ones, none, null, an unknown tag, and tags
\* that are also top-level keys of the descriptor.
TypeValues == KnownTypes \cup {Absent, Null, "loyaltyCard", "serialNumber",
                               "webServiceURL", "authenticationToken"}

\* The fields the code reads for a ticket of type tt.
FieldsRead(tt) ==
    CommonFields \cup
        (CASE tt = "boardingPass" -> BoardingFields
           [] tt = "coupon" -> CouponFields
           [] tt = "storeCard" -> StoreCardFields
           [] tt = "generic" -> GenericFields
           [] OTHER -> EventFields)

\* A well-formed value for field f.
FullSample(f) ==
    IF f \in ColorFields THEN <<"#", "F", "F", "0", "0", "8", "0">>
    ELSE IF f \in DateFields THEN DateUtc
    ELSE Sample(f)

\* The ticket of type tt that fills in every field the code reads for it.
FullTicket(tt) ==
    [f \in {"ticketType"} \cup FieldsRead(tt) |->
        IF f = "ticketType" THEN tt ELSE FullSample(f)]

\* The ticket that holds ticketType alone, or nothing at all.
EmptyTicket(tt) == [f \in (IF tt = Absent THEN {} ELSE {"ticketType"}) |-> tt]

NumFields(t) == Cardinality(DOMAIN t \ {"ticketType"})

SerialDesc == "PASS-1"

(***************************************************************************)
(* SpecColor: calls of hex_to_rgb.                                         *)
(***************************************************************************)
DescIdle ==
    /\ inTicket = EmptyTicket(Absent)
    /\ drawn = Absent
    /\ jsonOut = NotCalled

ColorIdle ==
    /\ hexIn = <<>>
    /\ hexOut = NotCalled

Calls == 1..MaxCalls

\* A call that has not begun: no arguments, a generator yet to be made.
IdleCall ==
    [pc |-> "idle", ticket |-> <<>>, serial_number |-> "", images |-> <<>>,
     token |-> Absent, files |-> <<>>, manifest_json |-> JsonBytes(<<>>, 0),
     certificates |-> <<>>, result |-> NotCalled]

\* A request slot no client has used yet.
IdleRequest ==
    [route |-> "", pc |-> "idle", serial_number |-> "", data |-> <<>>,
     pass_data |-> <<>>, response |-> [status |-> 0]]

\* No request, an empty registry, an empty generated directory.
SvcIdle ==
    /\ request = [r \in Calls |-> IdleRequest]
    /\ pass_store = <<>>
    /\ generatedDir = <<>>

EnvIdle ==
    /\ certDir = "valid"
    /\ templateDir = <<>>
    /\ SvcIdle

GenIdle ==
    /\ clock = 0
    /\ certLoads = 0
    /\ args = [ticket |-> <<>>, images |-> <<>>]
    /\ call = [r \in Calls |-> IdleCall]

InitColor ==
    /\ hexIn \in ColorInputs
    /\ hexOut = NotCalled
    /\ passConfig = Config(Null)
    /\ DescIdle
    /\ EnvIdle
    /\ GenIdle

CallHexToRgb ==
    /\ hexOut.st = "none"
    /\ hexOut' = hex_to_rgb(hexIn)
    /\ UNCHANGED <<hexIn, passConfig, svcVars, descVars, envVars, genVars>>

NextColor == CallHexToRgb

SpecColor == InitColor /\ [][NextColor]_vars

(***************************************************************************)
(* SpecDesc: a caller fills in a ticket, then generate_pass_json runs.     *)
(***************************************************************************)
InitDesc ==
    /\ ColorIdle
    /\ passConfig \in Configs
    /\ inTicket \in {EmptyTicket(tt) : tt \in TypeValues}
                      \cup {FullTicket(tt) : tt \in KnownTypes}
    /\ drawn = Absent
    /\ jsonOut = NotCalled
    /\ EnvIdle
    /\ GenIdle

SetField(f, v) ==
    /\ jsonOut.st = "none"
    /\ ~Has(inTicket, f)
    /\ NumFields(inTicket) < MaxFields
    /\ inTicket' = Put(inTicket, f, v)
    /\ UNCHANGED <<colorVars, passConfig, svcVars, drawn, jsonOut, envVars, genVars>>

\* The token is drawn only when a web-service URL is configured.
CallGeneratePassJson(token) ==
    /\ jsonOut.st = "none"
    /\ drawn' = IF Truthy(passConfig.webServiceURL) THEN token ELSE Absent
    /\ jsonOut' = generate_pass_json(inTicket, SerialDesc, passConfig, drawn', 0)
    /\ UNCHANGED <<colorVars, passConfig, svcVars, inTicket, envVars, genVars>>

NextDesc ==
    \/ \E f \in FieldsRead(TicketType(inTicket)) :
           \E v \in FieldValues(f) : SetField(f, v)
    \/ \E token \in Tokens :
           /\ (~Truthy(passConfig.webServiceURL) => token = CHOOSE t \in Tokens : TRUE)
           /\ CallGeneratePassJson(token)

SpecDesc == InitDesc /\ [][NextDesc]_vars

(***************************************************************************)
(* generate_pass, step by step.  Each call runs on a generator of its own, *)
(* as create_pass and update_pass make one per request, so the cache of    *)
(* load_certificates starts empty in every call.                           *)
(***************************************************************************)
\* Step 1: pass.json.  Time passes until datetime.now() is read.
StepJson(r, token, now) ==
    /\ call[r].pc = "json"
    /\ now >= clock
    /\ clock' = now
    /\ LET c == call[r]
           tok == IF Truthy(passConfig.webServiceURL) THEN token ELSE Absent
           res == generate_pass_json(c.ticket, c.serial_number, passConfig, tok, now)
       IN  call' = [call EXCEPT ![r] =
               IF res.st = "raise"
               THEN [c EXCEPT !.pc = "raised", !.result = res]
               ELSE [c EXCEPT !.pc = "images", !.token = tok,
                              !.files = DictSet(<<>>, "pass.json",
                                                JsonBytes(res.v, 2))]]
    /\ UNCHANGED <<colorVars, passConfig, svcVars, descVars, envVars, certLoads, args>>

\* Step 2: the images.
StepImages(r) ==
    /\ call[r].pc = "images"
    /\ LET c == call[r]
           res == AddImages(c.files, c.ticket, c.images, templateDir)
       IN  call' = [call EXCEPT ![r] =
               IF res.st = "raise"
               THEN [c EXCEPT !.pc = "raised", !.result = res]
               ELSE [c EXCEPT !.pc = "manifest", !.files = res.v]]
    /\ UNCHANGED <<colorVars, passConfig, svcVars, descVars, envVars, clock, certLoads, args>>

\* Step 3: manifest.json.
StepManifest(r) ==
    /\ call[r].pc = "manifest"
    /\ LET c == call[r]
           manifest_json == JsonBytes(create_manifest(c.files), 0)
       IN  call' = [call EXCEPT ![r] =
               [c EXCEPT !.pc = "sign", !.manifest_json = manifest_json,
                         !.files = DictSet(c.files, "manifest.json", manifest_json)]]
    /\ UNCHANGED <<colorVars, passConfig, svcVars, descVars, envVars, clock, certLoads, args>>

\* Step 4: sign_manifest, which loads the certificates first.
StepSign(r) ==
    /\ call[r].pc = "sign"
    /\ LET c == call[r]
           loaded == load_certificates(c.certificates, certDir, certLoads)
       IN  IF loaded.st = "raise"
           THEN /\ call' = [call EXCEPT ![r] =
                       [c EXCEPT !.pc = "raised", !.result = loaded]]
                /\ UNCHANGED certLoads
           ELSE LET signed == pkcs7_sign(c.manifest_json, loaded.v.certs)
                    cached == [c EXCEPT !.certificates = <<loaded.v.certs>>]
                IN  /\ certLoads' = IF loaded.v.read THEN certLoads + 1 ELSE certLoads
                    /\ call' = [call EXCEPT ![r] =
                           IF signed.st = "raise"
                           THEN [cached EXCEPT !.pc = "raised", !.result = signed]
                           ELSE [cached EXCEPT !.pc = "zip",
                                               !.files = DictSet(c.files, "signature",
                                                                 signed.v)]]
    /\ UNCHANGED <<colorVars, passConfig, svcVars, descVars, envVars, clock, args>>

\* Step 5: the archive; writing it may fail.
StepZip(r, fails) ==
    /\ call[r].pc = "zip"
    /\ LET c == call[r]
       IN  call' = [call EXCEPT ![r] =
               IF fails
               THEN [c EXCEPT !.pc = "raised", !.result = Raised("ArchiveWriteError")]
               ELSE [c EXCEPT !.pc = "returned",
                              !.result = Returned(ZipArchive(c.files))]]
    /\ UNCHANGED <<colorVars, passConfig, svcVars, descVars, envVars, clock, certLoads, args>>

\* The token the model gives a call that draws none.
NoDraw == CHOOSE t \in Tokens : TRUE

GeneratePassStep(r) ==
    \/ \E token \in Tokens, now \in 0..MaxClock :
           /\ (~Truthy(passConfig.webServiceURL) => token = NoDraw)
           /\ StepJson(r, token, now)
    \/ StepImages(r)
    \/ StepManifest(r)
    \/ StepSign(r)
    \/ \E fails \in BOOLEAN : StepZip(r, fails)

(***************************************************************************)
(* SpecGen: a caller picks a ticket and images and calls generate_pass     *)
(* with them, once and then again.                                         *)
(***************************************************************************)
PayloadValid == <<"A", "Q", "I", "D">>
PayloadPadded == <<"/", "w", "=", "=">>
\* No Base64: a character outside the alphabet; b64decode skips it.
PayloadLenient == <<"A", "Q", "I", "D", "!">>
\* No Base64: three characters and no padding; b64decode raises.
PayloadTruncated == <<"A", "Q", "I">>

Payloads == {PayloadValid, PayloadPadded, PayloadLenient, PayloadTruncated, <<>>}

ImageRoles == {"icon", "logo", "background", "strip", "thumbnail"}

TemplateIcon == <<137, 80, 78, 71, 1>>
TemplateLogo == <<137, 80, 78, 71, 2>>

TemplateSets ==
    {<<>>, [n \in {"icon.png"} |-> TemplateIcon], [n \in {"logo.png"} |-> TemplateLogo],
     [n \in {"icon.png", "logo.png"} |->
         IF n = "icon.png" THEN TemplateIcon ELSE TemplateLogo]}

GenConfigs == {Config(Null), Config(ServiceURL)}

GenTypes == KnownTypes \cup {Absent, "loyaltyCard"}

GenTickets ==
    {EmptyTicket(tt) : tt \in GenTypes}
    \cup {[backgroundColor |-> <<"G", "G", "G", "G", "G", "G">>],
          [eventDate |-> DateUtc],
          [eventDate |-> DateBad],
          [eventDate |-> DateBad, isoDate |-> DateLocal],
          [ticketType |-> "boardingPass", departureTime |-> DateBad],
          [ticketType |-> "coupon", expirationDate |-> DateBad]}

InitGen ==
    /\ ColorIdle
    /\ DescIdle
    /\ passConfig \in GenConfigs
    /\ certDir \in CertDirs
    /\ templateDir \in TemplateSets
    /\ SvcIdle
    /\ clock = 0
    /\ certLoads = 0
    /\ args \in {[ticket |-> t, images |-> <<>>] : t \in GenTickets}
    /\ call = [r \in Calls |-> IdleCall]

\* The caller adds an image payload before the first call.
GenSetImage(role, payload) ==
    /\ \A r \in Calls : call[r].pc = "idle"
    /\ role \notin DOMAIN args.images
    /\ Cardinality(DOMAIN args.images) < MaxImages
    /\ args' = [args EXCEPT !.images = Put(args.images, role, payload)]
    /\ UNCHANGED <<colorVars, passConfig, svcVars, descVars, envVars, clock, certLoads, call>>

Ended(r) == call[r].pc \in {"returned", "raised"}

\* generate_pass(ticket, serial_number, images) on a new PassGenerator.  The
\* calls share nothing but the clock and are taken one after the other.
GenBegin(r) ==
    /\ call[r].pc = "idle"
    /\ r > 1 => Ended(r - 1)
    /\ call' = [call EXCEPT ![r] =
           [IdleCall EXCEPT !.pc = "json", !.ticket = args.ticket,
                            !.serial_number = SerialDesc, !.images = args.images]]
    /\ UNCHANGED <<colorVars, passConfig, svcVars, descVars, envVars, clock, certLoads, args>>

NextGen ==
    \/ \E role \in ImageRoles, payload \in Payloads : GenSetImage(role, payload)
    \/ \E r \in Calls : GenBegin(r)
    \/ \E r \in Calls : GeneratePassStep(r)

SpecGen == InitGen /\ [][NextGen]_vars

(***************************************************************************)
(* Spec: the Flask service.  Clients send create, update, get and delete   *)
(* requests; the server handles them in threads, so the steps of the       *)
(* handlers interleave.                                                    *)
(***************************************************************************)
\* d.pop(k, None)
Drop(d, k) == [x \in DOMAIN d \ {k} |-> d[x]]

\* uuid.uuid4().hex[:8].upper()
Uuids == {"0A1B2C3D", "4E5F6A7B"}

\* f"PASS-{int(datetime.now().timestamp() * 1000)}-{uuid.uuid4().hex[:8].upper()}"
SerialNumber(now, uuid) == "PASS-" \o ToString(now) \o "-" \o uuid

\* A serial number no create request has given out.
SerialUnknown == "PASS-0-FFFFFFFF"

SvcTickets ==
    {EmptyTicket(Absent), [backgroundColor |-> <<"G", "G", "G", "G", "G", "G">>]}

\* The JSON bodies of create and update requests.
Bodies ==
    {<<>>}
    \cup {[ticket |-> t] : t \in SvcTickets}
    \cup {[ticket |-> EmptyTicket(Absent), deviceId |-> "device-1",
           iconImageBase64 |-> p] : p \in {PayloadLenient}}

\* not data or 'ticket' not in data
NoTicket(data) == "ticket" \notin DOMAIN data

TicketRequired == [status |-> 400, success |-> FALSE, error |-> "Ticket data is required"]
ServerError(e) == [status |-> 500, success |-> FALSE, error |-> e]
PassResponse(pass_data, serial_number) ==
    [status |-> 200, pass_data |-> pass_data, serial_number |-> serial_number]

\* generator = PassGenerator(...); generator.generate_pass(ticket=..., serial_number=...,
\* images={'logo': ..., 'icon': ..., 'background': ...}): the call as it begins.
NewGeneratorCall(data, serial_number) ==
    [IdleCall EXCEPT !.pc = "json", !.ticket = data.ticket,
                     !.serial_number = serial_number,
                     !.images = [logo |-> ImageGet(data, "logoImageBase64"),
                                 icon |-> ImageGet(data, "iconImageBase64"),
                                 background |-> ImageGet(data, "backgroundImageBase64")]]

Respond(r, response) ==
    request' = [request EXCEPT ![r].pc = "responded", ![r].response = response]

\* The request slots are taken in their order.
Arrives(r) == r > 1 => request[r - 1].pc # "idle"

\* create_pass up to the call of generate_pass.
CreatePassReceive(r, data, now, uuid) ==
    /\ request[r].pc = "idle"
    /\ Arrives(r)
    /\ IF NoTicket(data)
       THEN /\ request' = [request EXCEPT ![r] =
                   [IdleRequest EXCEPT !.route = "create", !.pc = "responded",
                                       !.data = data, !.response = TicketRequired]]
            /\ UNCHANGED <<clock, call>>
       ELSE /\ now >= clock
            /\ clock' = now
            /\ request' = [request EXCEPT ![r] =
                   [IdleRequest EXCEPT !.route = "create", !.pc = "generating",
                                       !.data = data,
                                       !.serial_number = SerialNumber(now, uuid)]]
            /\ call' = [call EXCEPT ![r] =
                   NewGeneratorCall(data, SerialNumber(now, uuid))]
    /\ UNCHANGED <<colorVars, passConfig, descVars, certDir, templateDir, certLoads,
                   args, pass_store, generatedDir>>

\* pass_store[serial_number] = {...}
CreatePassStore(r, now) ==
    /\ request[r].route = "create"
    /\ request[r].pc = "generating"
    /\ call[r].pc = "returned"
    /\ now >= clock
    /\ clock' = now
    /\ pass_store' = Put(pass_store, request[r].serial_number,
           [ticket |-> request[r].data.ticket,
            deviceId |-> Get(request[r].data, "deviceId"),
            createdAt |-> NowIso(now),
            passData |-> call[r].result.v])
    /\ request' = [request EXCEPT ![r].pc = "write", ![r].pass_data = call[r].result.v]
    /\ UNCHANGED <<colorVars, passConfig, descVars, certDir, templateDir, certLoads,
                   args, call, generatedDir>>

\* with open(file_path, 'wb') as f: f.write(pass_data), then the response; an
\* OSError goes to the except clause.
WriteAndRespond(r, fails) ==
    /\ request[r].pc = "write"
    /\ IF fails
       THEN /\ Respond(r, ServerError("OSError"))
            /\ UNCHANGED generatedDir
       ELSE /\ generatedDir' = Put(generatedDir, request[r].serial_number,
                                   request[r].pass_data)
            /\ Respond(r, PassResponse(request[r].pass_data, request[r].serial_number))
    /\ UNCHANGED <<colorVars, passConfig, descVars, certDir, templateDir, genVars,
                   pass_store>>

CreatePassWrite(r, fails) ==
    /\ request[r].route = "create"
    /\ WriteAndRespond(r, fails)

\* except Exception as e: ... 500
HandlerExcept(r) ==
    /\ request[r].pc = "generating"
    /\ call[r].pc = "raised"
    /\ Respond(r, ServerError(call[r].result.v))
    /\ UNCHANGED <<colorVars, passConfig, descVars, certDir, templateDir, genVars,
                   pass_store, generatedDir>>

CreatePassExcept(r) ==
    /\ request[r].route = "create"
    /\ HandlerExcept(r)

\* update_pass up to the call of generate_pass; the serial number is the one
\* of the URL, whether a pass has it or not.
UpdatePassReceive(r, serial_number, data) ==
    /\ request[r].pc = "idle"
    /\ Arrives(r)
    /\ IF NoTicket(data)
       THEN /\ request' = [request EXCEPT ![r] =
                   [IdleRequest EXCEPT !.route = "update", !.pc = "responded",
                                       !.serial_number = serial_number,
                                       !.data = data, !.response = TicketRequired]]
            /\ UNCHANGED call
       ELSE /\ request' = [request EXCEPT ![r] =
                   [IdleRequest EXCEPT !.route = "update", !.pc = "generating",
                                       !.data = data, !.serial_number = serial_number]]
            /\ call' = [call EXCEPT ![r] = NewGeneratorCall(data, serial_number)]
    /\ UNCHANGED <<colorVars, passConfig, descVars, certDir, templateDir, clock,
                   certLoads, args, pass_store, generatedDir>>

UpdatePassStore(r, now) ==
    /\ request[r].route = "update"
    /\ request[r].pc = "generating"
    /\ call[r].pc = "returned"
    /\ now >= clock
    /\ clock' = now
    /\ pass_store' = Put(pass_store, request[r].serial_number,
           [ticket |-> request[r].data.ticket,
            updatedAt |-> NowIso(now),
            passData |-> call[r].result.v])
    /\ request' = [request EXCEPT ![r].pc = "write", ![r].pass_data = call[r].result.v]
    /\ UNCHANGED <<colorVars, passConfig, descVars, certDir, templateDir, certLoads,
                   args, call, generatedDir>>

UpdatePassWrite(r, fails) ==
    /\ request[r].route = "update"
    /\ WriteAndRespond(r, fails)

UpdatePassExcept(r) ==
    /\ request[r].route = "update"
    /\ HandlerExcept(r)

\* get_pass: the registry first.
GetPassLookup(r, serial_number) ==
    /\ request[r].pc = "idle"
    /\ Arrives(r)
    /\ request' = [request EXCEPT ![r] =
           IF serial_number \in DOMAIN pass_store
           THEN [IdleRequest EXCEPT
                    !.route = "get", !.pc = "responded", !.serial_number = serial_number,
                    !.response = [status |-> 200,
                                  pass_data |-> pass_store[serial_number].passData]]
           ELSE [IdleRequest EXCEPT
                    !.route = "get", !.pc = "file", !.serial_number = serial_number]]
    /\ UNCHANGED <<colorVars, passConfig, descVars, certDir, templateDir, genVars,
                   pass_store, generatedDir>>

\* get_pass: then the file.
GetPassFile(r) ==
    /\ request[r].route = "get"
    /\ request[r].pc = "file"
    /\ Respond(r, IF request[r].serial_number \in DOMAIN generatedDir
                  THEN [status |-> 200,
                        pass_data |-> generatedDir[request[r].serial_number]]
                  ELSE [status |-> 404, success |-> FALSE, error |-> "Pass not found"])
    /\ UNCHANGED <<colorVars, passConfig, descVars, certDir, templateDir, genVars,
                   pass_store, generatedDir>>

\* delete_pass: pass_store.pop(serial_number, None)
DeletePassPop(r, serial_number) ==
    /\ request[r].pc = "idle"
    /\ Arrives(r)
    /\ pass_store' = Drop(pass_store, serial_number)
    /\ request' = [request EXCEPT ![r] =
           [IdleRequest EXCEPT !.route = "delete", !.pc = "file",
                               !.serial_number = serial_number]]
    /\ UNCHANGED <<colorVars, passConfig, descVars, certDir, templateDir, genVars,
                   generatedDir>>

\* delete_pass: if os.path.exists(file_path): os.remove(file_path)
DeletePassRemove(r) ==
    /\ request[r].route = "delete"
    /\ request[r].pc = "file"
    /\ generatedDir' = Drop(generatedDir, request[r].serial_number)
    /\ Respond(r, [status |-> 200, success |-> TRUE])
    /\ UNCHANGED <<colorVars, passConfig, descVars, certDir, templateDir, genVars,
                   pass_store>>

\* generate_pass runs inside the handler of a create or update request.
HandlerGenerate(r) ==
    /\ request[r].pc = "generating"
    /\ GeneratePassStep(r)

\* The serial numbers a client puts in a URL.
UrlSerials == DOMAIN pass_store \cup DOMAIN generatedDir \cup {SerialUnknown}

Init ==
    /\ ColorIdle
    /\ DescIdle
    /\ passConfig \in GenConfigs
    /\ certDir \in CertDirs
    /\ templateDir = <<>>
    /\ SvcIdle
    /\ GenIdle

Next ==
    \/ \E r \in Calls, data \in Bodies, now \in 0..MaxClock, uuid \in Uuids :
           /\ (NoTicket(data) => now = clock /\ uuid = CHOOSE u \in Uuids : TRUE)
           /\ CreatePassReceive(r, data, now, uuid)
    \/ \E r \in Calls, now \in 0..MaxClock : CreatePassStore(r, now)
    \/ \E r \in Calls, fails \in BOOLEAN : CreatePassWrite(r, fails)
    \/ \E r \in Calls : CreatePassExcept(r)
    \/ \E r \in Calls, data \in Bodies :
           \E serial_number \in UrlSerials : UpdatePassReceive(r, serial_number, data)
    \/ \E r \in Calls, now \in 0..MaxClock : UpdatePassStore(r, now)
    \/ \E r \in Calls, fails \in BOOLEAN : UpdatePassWrite(r, fails)
    \/ \E r \in Calls : UpdatePassExcept(r)
    \/ \E r \in Calls : \E serial_number \in UrlSerials : GetPassLookup(r, serial_number)
    \/ \E r \in Calls : GetPassFile(r)
    \/ \E r \in Calls : \E serial_number \in UrlSerials : DeletePassPop(r, serial_number)
    \/ \E r \in Calls : DeletePassRemove(r)
    \/ \E r \in Calls : HandlerGenerate(r)

Spec == Init /\ [][Next]_vars

(***************************************************************************)
(* Claims about hex_to_rgb and generate_pass_json.                         *)
(***************************************************************************)
\* A valid hex colour: six hex digits behind at most one leading '#'.
Unhashed(s) == IF s # <<>> /\ Head(s) = "#" THEN Tail(s) ELSE s

IsColorString(s) == s \notin {NullSeq, NumberSeq}

ValidHexColor(s) ==
    /\ IsColorString(s)
    /\ Len(Unhashed(s)) = 6
    /\ \A i \in 1..6 : Unhashed(s)[i] \in HexDigits

ByteOf(s, i) == 16 * HexDigitVal(s[i]) + HexDigitVal(s[i + 1])

\* C7: hex_to_rgb turns every valid six-digit hex colour, with or without a
\* leading '#', into 'rgb(r, g, b)' of its decoded bytes, turns input of any
\* other length into 'rgb(0, 0, 0)', and never raises on malformed input.
C7_HexToRgbTotal ==
    (IsColorString(hexIn) /\ hexOut.st # "none") =>
        /\ hexOut.st = "ok"
        /\ ValidHexColor(hexIn) =>
               hexOut.v = "rgb(" \o ToString(ByteOf(Unhashed(hexIn), 1)) \o ", "
                          \o ToString(ByteOf(Unhashed(hexIn), 3)) \o ", "
                          \o ToString(ByteOf(Unhashed(hexIn), 5)) \o ")"
        /\ Len(Unhashed(hexIn)) # 6 => hexOut.v = "rgb(0, 0, 0)"

\* C3: malformed ticket data never makes generate_pass_json fail: whatever the
\* ticket holds, the call returns a descriptor.
C3_MalformedTicketNeverRaises ==
    jsonOut.st # "none" => jsonOut.st = "ok"

\* The top-level keys that hold a content block (a dict of field groups).
BlockKeys(pj) == {k \in DOMAIN pj : pj[k].ty = "dict"}

\* The top-level keys generate_pass_json sets apart from the content block.
ScalarKeys ==
    {"formatVersion", "passTypeIdentifier", "teamIdentifier", "serialNumber",
     "organizationName", "description", "backgroundColor", "foregroundColor",
     "labelColor", "barcodes", "logoText", "webServiceURL", "authenticationToken",
     "relevantDate", "expirationDate"}

\* C8: every descriptor has exactly one top-level content block, keyed by one
\* of the five known types and matching the ticket's ticketType, and the block
\* overwrites no other top-level key.
C8_OneContentBlock ==
    jsonOut.st = "ok" =>
        /\ Cardinality(BlockKeys(jsonOut.v)) = 1
        /\ BlockKeys(jsonOut.v) \subseteq KnownTypes
        /\ BlockKeys(jsonOut.v) = {TicketType(inTicket)}
        /\ \A k \in ScalarKeys \cap DOMAIN jsonOut.v : jsonOut.v[k].ty # "dict"

\* The layout a content block shows: its primary keys and its transit marker.
PrimaryKeys(block) == {block.primaryFields[i].key : i \in DOMAIN block.primaryFields}

LayoutOf(block) ==
    CASE "transitType" \in DOMAIN block -> "boardingPass"
      [] "event" \in PrimaryKeys(block) -> "eventTicket"
      [] "offer" \in PrimaryKeys(block) -> "coupon"
      [] PrimaryKeys(block) \cap {"balance", "member"} # {} -> "storeCard"
      [] OTHER -> "generic"

\* The block of the descriptor an eventTicket with the same data gets.
AsEventTicket(t) ==
    generate_pass_json(Put(t, "ticketType", "eventTicket"), SerialDesc,
                       passConfig, drawn, 0).v["eventTicket"].v

\* C9: each of the five known ticketType values selects its own layout, and any
\* other or missing value gives the field groups of an eventTicket built from
\* the same ticket data.
C9_ContentDispatch ==
    jsonOut.st = "ok" =>
        LET tt == TicketType(inTicket)
            block == jsonOut.v[tt].v
        IN  /\ tt \in KnownTypes => LayoutOf(block) = tt
            /\ tt \notin KnownTypes => block = AsEventTicket(inTicket)

C9_Witness ==
    /\ jsonOut.st = "ok"
    /\ TicketType(inTicket) = "loyaltyCard"
    /\ Has(inTicket, "venueName")
    /\ Len(jsonOut.v["loyaltyCard"].v.secondaryFields) = 1

\* C10: the descriptor holds webServiceURL and authenticationToken exactly when
\* a web-service URL is configured, the URL is the configured one, and the
\* token is the one drawn for this call.
C10_WebServiceLinkage ==
    jsonOut.st = "ok" =>
        LET pj == jsonOut.v
            configured == Truthy(passConfig.webServiceURL)
        IN  /\ "webServiceURL" \in DOMAIN pj <=> configured
            /\ "authenticationToken" \in DOMAIN pj <=> configured
            /\ configured =>
                   /\ drawn \in Tokens
                   /\ pj["webServiceURL"] = PyStr(passConfig.webServiceURL)
                   /\ pj["authenticationToken"] = PyStr(drawn)

(***************************************************************************)
(* Claims about generate_pass.                                             *)
(***************************************************************************)
Returning(r) == call[r].pc = "returned"

\* The members of the archive a call returned, and the manifest among them.
ArchiveOf(r) == call[r].result.v.zip
ManifestIn(archive) == ContentOf(archive, "manifest.json").json

Unhashed2 == {"manifest.json", "signature"}

\* C1: in every bundle generate_pass returns, the manifest has one entry for
\* every file but manifest.json and signature, none for these two, and each
\* digest is the SHA-1 of the bytes the archive stores under that name.
C1_ManifestCoversBundle ==
    \A r \in Calls :
        Returning(r) =>
            /\ "manifest.json" \in NamesOf(ArchiveOf(r))
            /\ LET archive == ArchiveOf(r)
                   manifest == ManifestIn(archive)
               IN  /\ NamesOf(manifest) = NamesOf(archive) \ Unhashed2
                   /\ Len(manifest) = Cardinality(NamesOf(manifest))
                   /\ \A i \in DOMAIN manifest :
                          manifest[i].content
                              = Sha1Hex(ContentOf(archive, manifest[i].name))

C1_Witness ==
    \E r \in Calls :
        /\ Returning(r)
        /\ TicketType(call[r].ticket) = "coupon"
        /\ "strip.png" \in NamesOf(ManifestIn(ArchiveOf(r)))
        /\ "signature" \in NamesOf(ArchiveOf(r))

\* RFC 4648 Base64: quads of alphabet characters, the last one padded with up
\* to two '='.
IsBase64(p) ==
    /\ p # NumberSeq
    /\ Len(p) % 4 = 0
    /\ \A i \in DOMAIN p :
           \/ p[i] \in B64Alphabet
           \/ /\ p[i] = "="
              /\ i >= Len(p) - 1
              /\ \A j \in i..Len(p) : p[j] = "="

\* The image roles whose payload a call decodes.
DecodedRoles(ticket, images) ==
    {role \in DOMAIN images :
        /\ TruthyPayload(images[role])
        /\ role = "background" => TicketType(ticket) = "eventTicket"
        /\ role = "strip" => TicketType(ticket) \in {"coupon", "storeCard"}}

\* C2: a call in which a fatal error occurs (an image payload that is no
\* Base64, certificates that do not load, a signing failure, an archive write
\* failure) returns no byte buffer, so every returned bundle has its manifest
\* and its signature.
C2_FatalErrorsAbort ==
    \A r \in Calls :
        Returning(r) =>
            /\ \A role \in DecodedRoles(call[r].ticket, call[r].images) :
                   IsBase64(call[r].images[role])
            /\ certDir = "valid"
            /\ call[r].result.st = "ok"
            /\ Unhashed2 \subseteq NamesOf(ArchiveOf(r))

\* pass.json and manifest.json of a call, once it has made them.
HasPassJson(r) == call[r].pc \in {"images", "manifest", "sign", "zip", "returned"}
HasManifest(r) == call[r].pc \in {"sign", "zip", "returned"}
PassJsonOf(r) == ContentOf(call[r].files, "pass.json").json
ManifestOf(r) == call[r].manifest_json.json

Without(d, keys) == [k \in DOMAIN d \ keys |-> d[k]]
WithoutEntry(manifest, name) ==
    {manifest[i] : i \in {j \in DOMAIN manifest : manifest[j].name # name}}

SameArguments(r1, r2) ==
    /\ call[r1].ticket = call[r2].ticket
    /\ call[r1].serial_number = call[r2].serial_number
    /\ call[r1].images = call[r2].images

\* C6 as claimed: two calls with the same ticket, serial number and images
\* make pass.json files that differ in authenticationToken at most, and
\* manifests that differ through that alone, for every ticket; with no
\* web-service URL configured both files are identical.
C6_DeterministicUpToToken ==
    \A r1, r2 \in Calls :
        (HasPassJson(r1) /\ HasPassJson(r2) /\ SameArguments(r1, r2)) =>
            /\ Without(PassJsonOf(r1), {"authenticationToken"})
                   = Without(PassJsonOf(r2), {"authenticationToken"})
            /\ ~Truthy(passConfig.webServiceURL) => PassJsonOf(r1) = PassJsonOf(r2)
            /\ (HasManifest(r1) /\ HasManifest(r2)) =>
                   /\ WithoutEntry(ManifestOf(r1), "pass.json")
                          = WithoutEntry(ManifestOf(r2), "pass.json")
                   /\ ~Truthy(passConfig.webServiceURL) =>
                          ManifestOf(r1) = ManifestOf(r2)

\* The date keys whose value is the time of the call: the source date does
\* not parse and, for an eventTicket, no isoDate stands in for it.
KeysFromNow(ticket) ==
    LET tt == TicketType(ticket)
        bad(f) == Truthy(Get(ticket, f)) /\ ~fromisoformat(Get(ticket, f)).ok
    IN  (IF \/ tt = "eventTicket" /\ bad("eventDate") /\ ~Truthy(Get(ticket, "isoDate"))
            \/ tt = "boardingPass" /\ bad("departureTime")
         THEN {"relevantDate"} ELSE {})
        \cup (IF tt = "coupon" /\ bad("expirationDate") THEN {"expirationDate"} ELSE {})

\* C6 as amended: the two pass.json files differ at most in
\* authenticationToken and in a relevantDate or expirationDate whose source
\* date does not parse; the manifests differ through pass.json alone; with no
\* web-service URL configured and no such date both files are identical.
C6_DeterministicUpToTokenAndNow ==
    \A r1, r2 \in Calls :
        (HasPassJson(r1) /\ HasPassJson(r2) /\ SameArguments(r1, r2)) =>
            LET volatile == {"authenticationToken"} \cup KeysFromNow(call[r1].ticket)
                fixed == ~Truthy(passConfig.webServiceURL)
                             /\ KeysFromNow(call[r1].ticket) = {}
            IN  /\ DOMAIN PassJsonOf(r1) = DOMAIN PassJsonOf(r2)
                /\ Without(PassJsonOf(r1), volatile) = Without(PassJsonOf(r2), volatile)
                /\ fixed => PassJsonOf(r1) = PassJsonOf(r2)
                /\ (HasManifest(r1) /\ HasManifest(r2)) =>
                       /\ WithoutEntry(ManifestOf(r1), "pass.json")
                              = WithoutEntry(ManifestOf(r2), "pass.json")
                       /\ fixed => ManifestOf(r1) = ManifestOf(r2)

C6_Witness ==
    \E r1, r2 \in Calls :
        /\ r1 # r2
        /\ Returning(r1) /\ Returning(r2)
        /\ SameArguments(r1, r2)
        /\ call[r1].token \in Tokens
        /\ call[r1].token # call[r2].token
        /\ KeysFromNow(call[r1].ticket) = {"relevantDate"}
        /\ PassJsonOf(r1)["relevantDate"] # PassJsonOf(r2)["relevantDate"]


(***************************************************************************)
(* Claims about the certificate cache in the service.                      *)
(***************************************************************************)
\* The generation call of request r is running and holds a loaded bundle.
HoldsBundle(r) ==
    /\ request[r].pc = "generating"
    /\ call[r].pc \notin {"idle", "returned", "raised"}
    /\ call[r].certificates # <<>>

\* C4: of the generation calls that run at the same time, at most one load
\* populates the cache and every call works with that same loaded bundle.
C4_SingleFlightLoad ==
    \A r1, r2 \in Calls :
        (HoldsBundle(r1) /\ HoldsBundle(r2)) =>
            call[r1].certificates = call[r2].certificates

\* C5: in any sequence of create and update requests the certificate files
\* are read and parsed once at most; later calls reuse the loaded bundle.
C5_LoadedOnce == certLoads <= 1

(***************************************************************************)
(* Claims about the images of the bundle.                                  *)
(***************************************************************************)
\* The caller gave an image for the role.
Supplied(images, role) == TruthyPayload(ImageGet(images, role))

\* The bytes a supplied payload encodes.
EncodedBy(payload) == Raw(b64decode(payload).v)

\* C11: every returned bundle holds icon.png and icon@2x.png with the same
\* bytes: those of the caller's icon when one is given, else those of the
\* template directory's icon.png when it exists, else the built-in placeholder.
C11_IconResolution ==
    \A r \in Calls :
        Returning(r) =>
            LET archive == ArchiveOf(r)
            IN  /\ {"icon.png", "icon@2x.png"} \subseteq NamesOf(archive)
                /\ ContentOf(archive, "icon.png") = ContentOf(archive, "icon@2x.png")
                /\ ContentOf(archive, "icon.png") =
                       IF Supplied(call[r].images, "icon")
                       THEN EncodedBy(call[r].images["icon"])
                       ELSE IF "icon.png" \in DOMAIN templateDir
                       THEN Raw(templateDir["icon.png"])
                       ELSE Raw(PlaceholderImage)

\* A caller's icon wins over the template's, the template's over the placeholder.
C11_Witness ==
    /\ "icon.png" \in DOMAIN templateDir
    /\ \E r \in Calls :
           /\ Returning(r)
           /\ call[r].images = [icon |-> PayloadValid]
           /\ ContentOf(ArchiveOf(r), "icon.png") = Raw(<<1, 2, 3>>)

\* The 1x and @2x file names of an image role.
Name1x(role) == role \o ".png"
Name2x(role) == role \o "@2x.png"

\* C12: background.png is in a returned bundle only for an eventTicket with a
\* supplied background, strip.png only for a coupon or storeCard with a
\* supplied strip, thumbnail.png for any type when supplied; and every 1x
\* image is present exactly when its @2x twin is, with the same bytes.
C12_TypeConditionalImages ==
    \A r \in Calls :
        Returning(r) =>
            LET names == NamesOf(ArchiveOf(r))
                tt == TicketType(call[r].ticket)
                im == call[r].images
            IN  /\ "background.png" \in names <=>
                       (tt = "eventTicket" /\ Supplied(im, "background"))
                /\ "strip.png" \in names <=>
                       (tt \in {"coupon", "storeCard"} /\ Supplied(im, "strip"))
                /\ "thumbnail.png" \in names <=> Supplied(im, "thumbnail")
                /\ \A role \in ImageRoles :
                       /\ Name1x(role) \in names <=> Name2x(role) \in names
                       /\ Name1x(role) \in names =>
                              ContentOf(ArchiveOf(r), Name1x(role))
                                  = ContentOf(ArchiveOf(r), Name2x(role))

\* A strip given with a ticket that is no coupon or storeCard stays out.
C12_Witness ==
    \E r \in Calls :
        /\ Returning(r)
        /\ TicketType(call[r].ticket) = "boardingPass"
        /\ Supplied(call[r].images, "strip")
        /\ "strip.png" \notin NamesOf(ArchiveOf(r))

(***************************************************************************)
(* Claims about the field layouts.                                         *)
(***************************************************************************)
FieldGroups ==
    {"headerFields", "primaryFields", "secondaryFields", "auxiliaryFields", "backFields"}

\* The content block of the descriptor generate_pass_json returned.
BlockOut == jsonOut.v[TicketType(inTicket)].v

\* The layout generator a ticket type selects.
LayoutType(tt) == IF tt \in KnownTypes THEN tt ELSE "eventTicket"

KeysIn(block, group) == {block[group][i].key : i \in DOMAIN block[group]}

FieldsIn(block) ==
    UNION {{block[g][i] : i \in DOMAIN block[g]} : g \in FieldGroups}

Member(group, key, sources) == [group |-> group, key |-> key, sources |-> sources]

\* The group members that have no documented default, with their source fields.
OptionalMembers(layout) ==
    {Member("backFields", "address", {"venueAddress"}),
     Member("backFields", "description", {"description"})}
    \cup
    (CASE layout = "eventTicket" ->
            {Member("headerFields", "time", {"eventTime"}),
             Member("secondaryFields", "venue", {"venueName"}),
             Member("secondaryFields", "date", {"eventDate"}),
             Member("auxiliaryFields", "seat", {"seatSection", "seatRow", "seatNumber"}),
             Member("auxiliaryFields", "holder", {"ticketHolder"})}
       [] layout = "boardingPass" ->
            {Member("headerFields", "gate", {"gate"}),
             Member("secondaryFields", "passenger", {"passengerName"}),
             Member("secondaryFields", "departure", {"departureTime"}),
             Member("auxiliaryFields", "flight", {"flightNumber"}),
             Member("auxiliaryFields", "seat", {"seatNumber"}),
             Member("auxiliaryFields", "class", {"seatClass"}),
             Member("auxiliaryFields", "group", {"boardingGroup"}),
             Member("backFields", "confirmation", {"confirmationCode"})}
       [] layout = "coupon" ->
            {Member("secondaryFields", "title", {"couponTitle"}),
             Member("secondaryFields", "code", {"promoCode"}),
             Member("auxiliaryFields", "expires", {"expirationDate"}),
             Member("backFields", "terms", {"termsAndConditions"})}
       [] layout = "storeCard" ->
            {Member("primaryFields", "balance", {"pointsBalance"}),
             Member("secondaryFields", "level", {"membershipLevel"}),
             Member("secondaryFields", "name", {"cardholderName"}),
             Member("auxiliaryFields", "since", {"memberSince"})}
       [] OTHER ->
            {Member("primaryFields", "primary", {"primaryValue"}),
             Member("secondaryFields", "secondary", {"secondaryValue"})})

\* C13: a group member whose source ticket field is absent or empty is left
\* out of the descriptor, and no emitted field has an empty or null value
\* (members with a documented default are held to the second part only).
C13_FieldOmission ==
    jsonOut.st = "ok" =>
        /\ \A m \in OptionalMembers(LayoutType(TicketType(inTicket))) :
               (\A f \in m.sources : ~Truthy(Get(inTicket, f))) =>
                   m.key \notin KeysIn(BlockOut, m.group)
        /\ \A field \in FieldsIn(BlockOut) : field.value \notin {"", Null}

CouponPrimaryRules ==
    LET primary == BlockOut.primaryFields
        discount == Get(inTicket, "discountAmount")
        title == Get(inTicket, "couponTitle")
    IN  /\ Len(primary) = 1
        /\ primary[1].key = "offer"
        /\ primary[1].value = (IF Truthy(discount) THEN discount
                               ELSE IF Truthy(title) THEN title
                               ELSE "Special Offer")
        /\ primary[1].label = (IF Has(inTicket, "storeName")
                               THEN inTicket["storeName"] ELSE "OFFER")
        /\ "title" \in KeysIn(BlockOut, "secondaryFields") =>
               (Truthy(title) /\ Truthy(discount))

\* C15: the coupon's single primary field shows the discount amount, else
\* the coupon title, else 'Special Offer', labelled with the store name or
\* 'OFFER'; the title is a secondary field only when a discount amount is
\* present too, and the title is never shown in both primary and secondary.
C15_CouponLayout ==
    (jsonOut.st = "ok" /\ TicketType(inTicket) = "coupon") =>
        /\ CouponPrimaryRules
        /\ "title" \in KeysIn(BlockOut, "secondaryFields") =>
               BlockOut.primaryFields[1].value # Get(inTicket, "couponTitle")

(***************************************************************************)
(* Claims about relevantDate and expirationDate.                           *)
(***************************************************************************)
\* The ISO form of a source date: that of the parsed date, or the current
\* timestamp when the date does not parse.
IsoOf(date_string, now) ==
    IF fromisoformat(date_string).ok
    THEN isoformat(fromisoformat(date_string))
    ELSE NowIso(now)

\* The date a key of the descriptor is to hold, or Absent for none.
RelevantDateOf(ticket, now) ==
    LET tt == TicketType(ticket)
    IN  IF tt = "eventTicket" /\ Truthy(Get(ticket, "isoDate"))
        THEN Get(ticket, "isoDate")
        ELSE IF tt = "eventTicket" /\ Truthy(Get(ticket, "eventDate"))
        THEN IsoOf(Get(ticket, "eventDate"), now)
        ELSE IF tt = "boardingPass" /\ Truthy(Get(ticket, "departureTime"))
        THEN IsoOf(Get(ticket, "departureTime"), now)
        ELSE Absent

ExpirationDateOf(ticket, now) ==
    IF TicketType(ticket) = "coupon" /\ Truthy(Get(ticket, "expirationDate"))
    THEN IsoOf(Get(ticket, "expirationDate"), now)
    ELSE Absent

HoldsDate(pj, key, date) ==
    IF date = Absent THEN key \notin DOMAIN pj
    ELSE key \in DOMAIN pj /\ pj[key] = PyStr(date)

\* C16: an eventTicket gets relevantDate from isoDate when one is given and
\* else from the parsed eventDate, a boardingPass from departureTime, a coupon
\* gets expirationDate from its expirationDate field; no other type gets
\* either key; a source date that does not parse gives the current timestamp.
C16_RelevantAndExpirationDates ==
    jsonOut.st = "ok" =>
        /\ HoldsDate(jsonOut.v, "relevantDate", RelevantDateOf(inTicket, 0))
        /\ HoldsDate(jsonOut.v, "expirationDate", ExpirationDateOf(inTicket, 0))

(***************************************************************************)
(* Claims about the archive and the order of the stages.                   *)
(***************************************************************************)
BothNames(role) == {Name1x(role), Name2x(role)}

\* The members a bundle always has.
RequiredMembers ==
    {"pass.json", "manifest.json", "signature"} \cup BothNames("icon")

\* The optional images the call resolved for its ticket and images.
ResolvedOptional(ticket, images, templates) ==
    LET tt == TicketType(ticket)
    IN  (IF Supplied(images, "logo") \/ "logo.png" \in DOMAIN templates
         THEN BothNames("logo") ELSE {})
        \cup (IF tt = "eventTicket" /\ Supplied(images, "background")
              THEN BothNames("background") ELSE {})
        \cup (IF tt \in {"coupon", "storeCard"} /\ Supplied(images, "strip")
              THEN BothNames("strip") ELSE {})
        \cup (IF Supplied(images, "thumbnail") THEN BothNames("thumbnail") ELSE {})

\* C17: the archive generate_pass returns has exactly the members of the
\* bundle file set, each once and under its bare file name: pass.json,
\* icon.png, icon@2x.png, manifest.json and signature always, the optional
\* images that were resolved, and nothing else.
C17_ArchiveMembers ==
    \A r \in Calls :
        Returning(r) =>
            LET archive == ArchiveOf(r)
            IN  /\ NamesOf(archive) =
                       RequiredMembers
                           \cup ResolvedOptional(call[r].ticket, call[r].images, templateDir)
                /\ Len(archive) = Cardinality(NamesOf(archive))
                /\ archive = call[r].files

\* A bundle with a template logo and a supplied thumbnail: nine members.
C17_Witness ==
    \E r \in Calls :
        /\ Returning(r)
        /\ "logo.png" \in DOMAIN templateDir
        /\ Supplied(call[r].images, "thumbnail")
        /\ Len(ArchiveOf(r)) = 9

\* The place of a position in the order of the stages; an exception ends the call.
StageRank(pc) ==
    CASE pc = "idle" -> 0
      [] pc = "json" -> 1
      [] pc = "images" -> 2
      [] pc = "manifest" -> 3
      [] pc = "sign" -> 4
      [] pc = "zip" -> 5
      [] OTHER -> 6

\* The files of a call that the manifest hashes.
HashedFiles(files) == {files[i] : i \in {j \in DOMAIN files : files[j].name \notin Unhashed2}}

\* What holds of a call once its manifest, and then its signature, is made.
StagesAgree(r) ==
    LET c == call[r]
        manifest == c.manifest_json.json
    IN  /\ c.pc \in {"sign", "zip", "returned"} =>
               /\ NamesOf(manifest) =
                      (RequiredMembers \ Unhashed2)
                          \cup ResolvedOptional(c.ticket, c.images, templateDir)
               /\ ContentOf(c.files, "manifest.json") = c.manifest_json
               /\ {[name |-> f.name, content |-> Sha1Hex(f.content)] :
                       f \in HashedFiles(c.files)}
                      = {manifest[i] : i \in DOMAIN manifest}
        /\ c.pc \in {"zip", "returned"} =>
               ContentOf(c.files, "signature").data = ContentOf(c.files, "manifest.json")
        /\ c.pc = "returned" => ArchiveOf(r) = c.files

\* C18: the stages of a call run strictly forward; the manifest is computed
\* after the descriptor and every image file are in the file set; the
\* signature is made over the very bytes stored as manifest.json; from the
\* manifest to the archive no hashed file is added, removed or changed.
C18_StagesForward ==
    [][\A r \in Calls :
           /\ StageRank(call[r].pc) <= StageRank(call'[r].pc)
           /\ (call[r].pc # call'[r].pc /\ call'[r].pc # "raised") =>
                  StageRank(call'[r].pc) = StageRank(call[r].pc) + 1
           /\ StagesAgree(r)']_vars

\* A bundle with a supplied logo went through every stage.
C18_Witness ==
    \E r \in Calls :
        /\ Returning(r)
        /\ Supplied(call[r].images, "logo")
        /\ Len(ManifestOf(r)) = 5
        /\ ContentOf(ArchiveOf(r), "signature").data = call[r].manifest_json

\* C19: in every descriptor no two fields of one field group share a key, the
\* common back fields included.
C19_UniqueKeysPerGroup ==
    jsonOut.st = "ok" =>
        \A g \in FieldGroups :
            Len(BlockOut[g]) = Cardinality(KeysIn(BlockOut, g))

\* A boarding pass with every field filled in: five back fields, four
\* auxiliary fields.
C19_Witness ==
    /\ jsonOut.st = "ok"
    /\ inTicket = FullTicket("boardingPass")
    /\ Len(BlockOut.backFields) = 5
    /\ Len(BlockOut.auxiliaryFields) = 4

(***************************************************************************)
(* Claims about the registry of the service.                               *)
(***************************************************************************)
\* No request is being handled.
Quiescent == \A r \in Calls : request[r].pc \in {"idle", "responded"}

\* C20: once the create, update and delete requests sent so far are answered,
\* failed ones included, a serial number has an entry in pass_store exactly
\* when it has a .pkpass file, and the entry and the file hold the same bundle.
C20_RegistryConsistent ==
    Quiescent =>
        /\ DOMAIN pass_store = DOMAIN generatedDir
        /\ \A s \in DOMAIN pass_store : pass_store[s].passData = generatedDir[s]

=============================================================================
